---- MODULE Spec2Model ----
(***************************************************************************)
(* Live voice/video session of the Dhaka traffic assistant.                *)
(*                                                                         *)
(*   src/components/LiveTrafficTalk.tsx  the React component: connection   *)
(*       status, connection handle, camera, transcript accumulation        *)
(*   src/services/gemini.ts              connectToJhumaLive: one closure   *)
(*       per session (isCleaningUp, isSocketOpen, cleanup, the transport   *)
(*       callbacks and the control object it returns)                      *)
(*                                                                         *)
(* Every handler of the program runs to completion on one thread, so each  *)
(* handler is one action.  A handler is written as an operator from the    *)
(* program state (the record World) to the program state, statement by     *)
(* statement in source order; an `await` splits a handler in two actions.  *)
(***************************************************************************)
EXTENDS Integers, Sequences, FiniteSets, TLC

\* ------------------------------------------------------------------------
\* Bounds of the model
\* ------------------------------------------------------------------------
MaxSessions == 2        \* sessions started in one behaviour (Spec)
MaxPendAudio == 1       \* audio sends waiting on sessionPromise
MaxCalls == 2           \* showMap calls received in one behaviour
MaxClock == 1           \* clock ticks in one behaviour
MaxBuf == 2             \* characters accumulated in one fragment buffer
MaxTranscript == 2      \* entries of the transcript list
MaxCamLive == 2         \* camera streams requested or live at once
CamSessions == 1        \* sessions started in one behaviour (SpecCam)
MaxBytes == 4           \* bytes of one inbound audio chunk
MaxAudioTime == 4       \* last instant of the output context's clock
TickMs == 3000          \* milliseconds by which one step of the clock advances
MaxExpect == 2          \* utterances finalized in one behaviour
SampleScale == 1000     \* a sample is k / SampleScale for an integer k
MaxFrame == 4           \* samples of one captured block (SpecDown)
MaxRate == 3            \* sample rates are 1..MaxRate (SpecDown)
MaxSample == 2          \* a sample of a block is 0..MaxSample (SpecDown)

\* ------------------------------------------------------------------------
\* Program constants
\* ------------------------------------------------------------------------
DedupWindowMs == 2000   \* LiveTrafficTalk.tsx:185  Date.now() - 2000
NegScale == 32768       \* gemini.ts:490  s * 0x8000
PosScale == 32767       \* gemini.ts:490  s * 0x7FFF
DecodeScale == 32768    \* gemini.ts:31   / 32768.0

Sessions == 1..MaxSessions
NoConn == 0             \* connection === null

VARIABLES
  \* ---- LiveTrafficTalk component state (useState / useRef)
  status,          \* 'idle' | 'connecting' | 'connected' | 'error'
  connection,      \* NoConn or the session whose control object is held
  isExpanded,
  isMuted,
  errTimers,       \* pending setTimeout(() => setStatus('idle'), 3000)
  isCameraOn,
  streamRef,       \* TRUE iff streamRef.current holds a camera stream
  videoInterval,   \* 0: videoIntervalRef.current === null; c: an interval
                   \* whose callback captured connection c
  camReq,          \* startCamera calls awaiting getUserMedia: captured connection
  camTimers,       \* pending setTimeout(..., 100) of startCamera: captured connection
  camLive,         \* camera streams acquired and not stopped
  userBuf,         \* userBufferRef.current
  jhumaBuf,        \* jhumaBufferRef.current
  streamingUser,
  streamingJhuma,
  transcript,
  \* ---- one connectToJhumaLive closure per session
  sess,
  \* ---- environment and observation
  now,             \* Date.now()
  acks,            \* tool responses written to a session: <<session, id>>
  calls,           \* showMap function calls received so far
  heard,           \* per sender: the fragments onTranscript got since the
                   \* sender's last final marker, concatenated
  expect,          \* the utterances those fragments and markers stand
                   \* for, with the buffer and the time of the final marker
  carried,         \* per sender: the fragments the messages carried since
                   \* the last turnComplete, concatenated
  asked,           \* ids of the function calls received, whatever their name
  played,          \* what the last step did to the playback queue, in order
  history,         \* the transcripts handed to addHistoryItem
  finals,          \* the final markers onTranscript got in the last step:
                   \* sender, what the sender had said (text) and what the
                   \* sender's buffer held (buf)
  wrote,           \* the sends of the last step: session, kind, and whether
                   \* the send wrote to the session or returned without
  resample,        \* one captured block on its way through downsampleBuffer
  pcm              \* one sample on its way through the capture path's
                   \* encoder and the playback path's decoder

vars == <<status, connection, isExpanded, isMuted, errTimers, isCameraOn,
          streamRef, videoInterval, camReq, camTimers, camLive, userBuf,
          jhumaBuf, streamingUser, streamingJhuma, transcript, sess, now,
          acks, calls, heard, expect, carried, asked, played,
          history, finals, wrote, resample, pcm>>

\* The program state as one value, so that handlers compose like statements.
World ==
  [status |-> status, connection |-> connection, isExpanded |-> isExpanded,
   isMuted |-> isMuted, errTimers |-> errTimers, isCameraOn |-> isCameraOn,
   streamRef |-> streamRef, videoInterval |-> videoInterval,
   camReq |-> camReq, camTimers |-> camTimers, camLive |-> camLive,
   userBuf |-> userBuf, jhumaBuf |-> jhumaBuf,
   streamingUser |-> streamingUser, streamingJhuma |-> streamingJhuma,
   transcript |-> transcript, sess |-> sess, now |-> now, acks |-> acks,
   calls |-> calls, heard |-> heard, expect |-> expect,
   carried |-> carried, asked |-> asked, played |-> <<>>,
   history |-> history, finals |-> <<>>, wrote |-> {}, pcm |-> pcm,
   resample |-> resample,
   \* an exception thrown by the handler that runs, and whether a closed
   \* AudioContext refuses new nodes in this run
   threw |-> FALSE, ctxThrows |-> FALSE,
   \* the calls that throw in this run: "close" session.close(), "source"
   \* the stop() of a playback source, "track" the stop() of a microphone
   \* track
   fails |-> {},
   \* React's update queue of the component while one handler runs
   dirty |-> FALSE, queue |-> <<>>]

Commit(w) ==
  /\ status' = w.status
  /\ connection' = w.connection
  /\ isExpanded' = w.isExpanded
  /\ isMuted' = w.isMuted
  /\ errTimers' = w.errTimers
  /\ isCameraOn' = w.isCameraOn
  /\ streamRef' = w.streamRef
  /\ videoInterval' = w.videoInterval
  /\ camReq' = w.camReq
  /\ camTimers' = w.camTimers
  /\ camLive' = w.camLive
  /\ userBuf' = w.userBuf
  /\ jhumaBuf' = w.jhumaBuf
  /\ streamingUser' = w.streamingUser
  /\ streamingJhuma' = w.streamingJhuma
  /\ transcript' = w.transcript
  /\ sess' = w.sess
  /\ now' = w.now
  /\ acks' = w.acks
  /\ calls' = w.calls
  /\ heard' = w.heard
  /\ expect' = w.expect
  /\ carried' = w.carried
  /\ asked' = w.asked
  /\ played' = w.played
  /\ history' = w.history
  /\ finals' = w.finals
  /\ wrote' = w.wrote
  /\ pcm' = w.pcm
  /\ resample' = w.resample

\* The closure variables of one connectToJhumaLive call before it runs.
\*   pc      where the async function connectToJhumaLive stands
\*   sock    the transport as the remote end and the SDK see it
\*   cl      where the async function cleanup stands
\*   owner   who awaits the cleanup that is running
\*   nextStartTime, sources   the playback queue; a source is the start and
\*           the duration it was scheduled with, in sample frames
\*   currentTime   outputAudioContext.currentTime, in sample frames
\*   flushed the last thing done to the playback queue was an interruption
\*   enabled the enabled flag of the microphone's audio tracks
\*   pc      "nokey" marks the control object returned for want of an API key
\*   disc    what became of the promises disconnect() returned: none was
\*           made, one is pending, all resolved, one rejected
\*   ended   the user ended the call, status being connecting, while
\*           connectToJhumaLive was pending for this session
\*   disconnects   how many times the session has called onDisconnect
NoSession ==
  [pc |-> "none", sock |-> "none", isSocketOpen |-> FALSE,
   isCleaningUp |-> FALSE, cl |-> "idle", owner |-> "none", mic |-> "none",
   inCtx |-> "none", outCtx |-> "none", capture |-> FALSE, pendAudio |-> 0,
   micStops |-> 0, inCloses |-> 0, outCloses |-> 0, srcFlushes |-> 0,
   tdReqs |-> 0, capt |-> <<>>, nextStartTime |-> 0, sources |-> {},
   currentTime |-> 0, flushed |-> FALSE, enabled |-> TRUE,
   disc |-> "none", ended |-> FALSE, disconnects |-> 0]

\* No block is on its way.
NoBlock == [buffer |-> <<>>, inputRate |-> 1, outputRate |-> 1, result |-> <<>>]

\* No sample is on its way.
NoSample == [sample |-> 0, encoded |-> <<>>, decoded |-> <<>>]

Init ==
  /\ status = "idle"
  /\ connection = NoConn
  /\ isExpanded = FALSE
  /\ isMuted = FALSE
  /\ errTimers = 0
  /\ isCameraOn = FALSE
  /\ streamRef = FALSE
  /\ videoInterval = 0
  /\ camReq = {}
  /\ camTimers = {}
  /\ camLive = 0
  /\ userBuf = ""
  /\ jhumaBuf = ""
  /\ streamingUser = ""
  /\ streamingJhuma = ""
  /\ transcript = <<>>
  /\ sess = [s \in Sessions |-> NoSession]
  /\ now = 0
  /\ acks = <<>>
  /\ calls = <<>>
  /\ heard = [user |-> "", jhuma |-> ""]
  /\ expect = <<>>
  /\ carried = [user |-> "", jhuma |-> ""]
  /\ asked = {}
  /\ played = <<>>
  /\ history = {}
  /\ finals = <<>>
  /\ wrote = {}
  /\ pcm = NoSample
  /\ resample = NoBlock

\* ------------------------------------------------------------------------
\* LiveTrafficTalk.tsx: stopCamera and the callbacks handed to connect
\* ------------------------------------------------------------------------
stopCamera(w) ==
  [w EXCEPT !.videoInterval = 0,
            !.camLive = IF w.streamRef THEN @ - 1 ELSE @,
            !.streamRef = FALSE,
            !.isCameraOn = FALSE]

\* () => setStatus('connected')
onConnect(w) == [w EXCEPT !.status = "connected"]

onDisconnect(w) ==
  [stopCamera([w EXCEPT !.status = "idle", !.streamingUser = "",
                        !.streamingJhuma = ""])
     EXCEPT !.connection = NoConn, !.isMuted = FALSE]

onError(w) ==
  [stopCamera([w EXCEPT !.status = "error", !.errTimers = @ + 1])
     EXCEPT !.connection = NoConn, !.isMuted = FALSE]

\* toggleSession, end branch, after `await connection.disconnect()`.
endFinish(w) ==
  [w EXCEPT !.status = "idle", !.connection = NoConn, !.isExpanded = FALSE,
            !.streamingUser = "", !.streamingJhuma = "", !.isMuted = FALSE]

\* toggleSession, catch block.
connectFailed(w) == [w EXCEPT !.status = "error", !.errTimers = @ + 1]

\* session.sendRealtimeInput / sendToolResponse / send
write(w, s, kind) ==
  [w EXCEPT !.wrote = @ \cup {[s |-> s, kind |-> kind, sent |-> TRUE]}]

\* A send that finds isSocketOpen false returns without writing.
drop(w, s, kind) ==
  [w EXCEPT !.wrote = @ \cup {[s |-> s, kind |-> kind, sent |-> FALSE]}]

\* ------------------------------------------------------------------------
\* gemini.ts: cleanup
\* ------------------------------------------------------------------------
\* The promise of a disconnect() call settles.
settle(w, s, owner, how) ==
  IF owner \in {"end", "effect"} /\ w.sess[s].disc # "rejected"
  THEN [w EXCEPT !.sess[s].disc = how] ELSE w

\* What runs once `await cleanup()` (or cleanup().then) of `owner` resumes.
afterCleanup(w, s, owner) ==
  LET v == settle(w, s, owner, "resolved") IN
  CASE owner \in {"close", "error"} ->
         onDisconnect([v EXCEPT !.sess[s].disconnects = @ + 1])
    [] owner = "end" -> endFinish(v)
    [] owner = "fail" -> connectFailed([v EXCEPT !.sess[s].pc = "failed"])
    [] OTHER -> v

\* What runs when the promise of cleanup() rejects: `await cleanup()` throws
\* in disconnect(), whose promise rejects and takes toggleSession's end
\* branch with it; in onclose; and in connectToJhumaLive's catch block, from
\* where the error reaches toggleSession's catch block.  The onDisconnect of
\* cleanup().then(onDisconnect) is not called.
cleanupRejected(w, s, owner) ==
  LET v == settle(w, s, owner, "rejected") IN
  IF owner = "fail" THEN connectFailed([v EXCEPT !.sess[s].pc = "failed"])
  ELSE v

\* cleanup without the isCleaningUp guard.
cleanupNoGuard(w, s, owner) ==
  LET c == w.sess[s] IN
  [w EXCEPT !.sess[s] =
     [c EXCEPT !.isCleaningUp = TRUE, !.isSocketOpen = FALSE,
               !.srcFlushes = @ + 1, !.sources = {},
               !.micStops = @ + 1, !.mic = "stopped",
               !.inCloses = IF c.inCtx # "closed" THEN @ + 1 ELSE @,
               !.cl = "closeIn", !.owner = owner, !.tdReqs = @ + 1]]

\* cleanup() up to its first await.  A call that finds isCleaningUp set
\* returns at once, and whoever awaits it resumes at once.  The stop() of a
\* source is inside try/catch; the stop() of a track is not, and when it
\* throws cleanup ends there with its promise rejected.
cleanup(w, s, owner) ==
  LET c == w.sess[s] IN
  IF c.isCleaningUp
  THEN afterCleanup([w EXCEPT !.sess[s].tdReqs = @ + 1], s, owner)
  ELSE IF "track" \in w.fails
  THEN cleanupRejected(
         [w EXCEPT !.sess[s] =
            [c EXCEPT !.isCleaningUp = TRUE, !.isSocketOpen = FALSE,
                      !.srcFlushes = @ + 1, !.sources = {},
                      !.micStops = @ + 1,
                      !.cl = "threw", !.owner = owner, !.tdReqs = @ + 1]],
         s, owner)
  ELSE [w EXCEPT !.sess[s] =
          [c EXCEPT !.isCleaningUp = TRUE, !.isSocketOpen = FALSE,
                    !.srcFlushes = @ + 1, !.sources = {},
                    !.micStops = @ + 1,
                    !.mic = "stopped",
                    !.inCloses = IF c.inCtx # "closed" THEN @ + 1 ELSE @,
                    !.cl = "closeIn", !.owner = owner, !.tdReqs = @ + 1]]

\* The control object's disconnect(): session.close() is requested inside
\* try/catch, then cleanup is awaited by `owner`.
disconnect(w, s, owner) ==
  IF w.sess[s].pc = "nokey" THEN afterCleanup(w, s, owner) ELSE
  cleanup([w EXCEPT !.sess[s].sock = IF @ = "open" /\ "close" \notin w.fails
                                     THEN "closing" ELSE @,
                    !.sess[s].disc = IF @ = "rejected" THEN @ ELSE "pending"],
          s, owner)

\* ------------------------------------------------------------------------
\* React state updates made by one handler
\* ------------------------------------------------------------------------
\* React batches the updates a handler makes and renders after the handler
\* has returned.  setX(value) on a component with no pending update and
\* X = value already is dropped.  setX(updater) calls the updater at once
\* only when the component has no pending update; otherwise the updater is
\* queued and React calls it during the render, i.e. after the handler has
\* run to its end, and whatever the updater reads from a ref or from
\* Date.now() it reads then.
setStreaming(w, field, v) ==
  IF ~w.dirty /\ w[field] = v THEN w
  ELSE [w EXCEPT ![field] = v, !.dirty = TRUE]

\* The transcript item an updater builds: it reads the sender's buffer ref
\* and the clock when it is called.
item(w, u) ==
  CASE u.sender = "user" ->
         [id |-> w.now, sender |-> "user", text |-> w.userBuf]
    [] u.sender = "jhuma" ->
         [id |-> w.now, sender |-> "jhuma", text |-> w.jhumaBuf]
    [] OTHER ->
         [id |-> w.now, sender |-> "system", mapData |-> u.mapData]

\* setTranscript(prev => [...prev, <item>])
appendTranscript(w, u) ==
  IF ~w.dirty
  THEN [w EXCEPT !.transcript = Append(@, item(w, u)), !.dirty = TRUE]
  ELSE [w EXCEPT !.queue = Append(@, u)]

RECURSIVE applyQueue(_, _)
applyQueue(w, q) ==
  IF q = <<>> THEN w
  ELSE applyQueue([w EXCEPT !.transcript = Append(@, item(w, Head(q)))],
                  Tail(q))

\* The render after the handler: the queued updaters are called in order.
render(w) == [applyQueue(w, w.queue) EXCEPT !.queue = <<>>, !.dirty = FALSE]

\* useEffect(() => () => { if (connection) connection.disconnect() },
\* [connection]): React runs the cleanup of the effect of the previous
\* render when `connection` has changed; `old` is that render's connection.
runEffects(w, old) ==
  IF old # NoConn /\ w.connection # old THEN disconnect(w, old, "effect")
  ELSE w

\* One handler: run it, then the render it causes with its effect cleanups.
Do(w) == Commit(runEffects(render(w), connection))

\* ------------------------------------------------------------------------
\* toggleSession
\* ------------------------------------------------------------------------
Unused(cap) == {s \in 1..cap : sess[s].pc = "none"}

\* A start that leaves the two buffer refs as they are.
ToggleStartKeepsBuffers(cap) ==
  /\ status \notin {"connected", "connecting"}
  /\ Unused(cap) # {}
  /\ LET s == CHOOSE x \in Unused(cap) : \A y \in Unused(cap) : x <= y
         w == World
     IN Do([w EXCEPT !.status = "connecting", !.isExpanded = TRUE,
                     !.transcript = <<>>,
                     !.streamingUser = "", !.streamingJhuma = "",
                     !.isMuted = FALSE,
                     !.sess[s] = [NoSession EXCEPT !.pc = "mic",
                                    !.inCtx = "open", !.outCtx = "open",
                                    !.capt = w.transcript]])

\* Start: the else branch up to `await connectToJhumaLive(...)`, and
\* connectToJhumaLive up to `await getUserMedia`.  The callbacks it passes
\* close over this render's `transcript`.
ToggleStart(cap) ==
  /\ status \notin {"connected", "connecting"}
  /\ Unused(cap) # {}
  /\ LET s == CHOOSE x \in Unused(cap) : \A y \in Unused(cap) : x <= y
         w == World
     IN Do([w EXCEPT !.status = "connecting", !.isExpanded = TRUE,
                     !.transcript = <<>>, !.userBuf = "", !.jhumaBuf = "",
                     !.streamingUser = "", !.streamingJhuma = "",
                     !.isMuted = FALSE,
                     !.sess[s] = [NoSession EXCEPT !.pc = "mic",
                                    !.inCtx = "open", !.outCtx = "open",
                                    !.capt = w.transcript]])

\* connectToJhumaLive has been called for the session and has neither
\* returned nor thrown.
pending(w, s) == w.sess[s].pc \in {"mic", "handshake"}

\* End: saveToHistory, stopCamera, `await connection.disconnect()` when this
\* render's connection is not null, then the rest (endFinish).
saveToHistory(w, currentTranscript) ==
  IF Len(currentTranscript) > 0
  THEN [w EXCEPT !.history = @ \cup {currentTranscript}] ELSE w

endSession(w) ==
  LET u == stopCamera(saveToHistory(w, w.transcript))
      v == [u EXCEPT !.sess = [s \in Sessions |->
                                 IF w.status = "connecting" /\ pending(w, s)
                                 THEN [@[s] EXCEPT !.ended = TRUE]
                                 ELSE @[s]]]
  IN IF w.connection # NoConn THEN disconnect(v, w.connection, "end")
     ELSE endFinish(v)

ToggleEnd ==
  /\ status \in {"connected", "connecting"}
  /\ Do(endSession(World))

\* setTimeout(() => setStatus('idle'), 3000)
ErrorTimerFires ==
  /\ errTimers > 0
  /\ Do([World EXCEPT !.status = "idle", !.errTimers = @ - 1])

\* ------------------------------------------------------------------------
\* connectToJhumaLive
\* ------------------------------------------------------------------------
\* getUserMedia resolves and onConnect is called as soon as ai.live.connect
\* has been called.
MicGrantedConnects(s) ==
  /\ sess[s].pc = "mic"
  /\ Do(onConnect([World EXCEPT !.sess[s].mic = "live",
                                !.sess[s].sock = "connecting",
                                !.sess[s].pc = "handshake"]))

\* getUserMedia resolves; ai.live.connect is called; `await sessionPromise`.
MicGranted(s) ==
  /\ sess[s].pc = "mic"
  /\ Do([World EXCEPT !.sess[s].mic = "live", !.sess[s].sock = "connecting",
                      !.sess[s].pc = "handshake"])

\* getUserMedia rejects and the rejection is reported through onError.
MicDeniedOnError(s) ==
  /\ sess[s].pc = "mic"
  /\ Do(onError([World EXCEPT !.sess[s].pc = "failed"]))

\* getUserMedia rejects: connectToJhumaLive throws into toggleSession's catch.
MicDenied(s) ==
  /\ sess[s].pc = "mic"
  /\ Do(connectFailed([World EXCEPT !.sess[s].pc = "failed"]))

\* callbacks.onopen
OnOpen(s) ==
  /\ sess[s].sock = "connecting"
  /\ Do(onConnect([World EXCEPT !.sess[s].sock = "open",
                                !.sess[s].isSocketOpen = TRUE,
                                !.sess[s].capture = TRUE]))

\* The audio sends that waited on sessionPromise run when it resolves.
flushAudio(w, s) ==
  LET v == [w EXCEPT !.sess[s].pendAudio = 0] IN
  IF w.sess[s].pendAudio = 0 THEN v
  ELSE IF w.sess[s].isSocketOpen THEN write(v, s, "audio")
  ELSE drop(v, s, "audio")

\* sessionPromise resolves: its waiting .then callbacks run,
\* connectToJhumaLive returns the control object, toggleSession does
\* setConnection(conn).
SessionResolved(s) ==
  /\ sess[s].pc = "handshake"
  /\ sess[s].sock = "open"
  /\ Do([flushAudio(World, s) EXCEPT !.sess[s].pc = "returned",
                                     !.connection = s])

\* sessionPromise rejects: `await cleanup(); throw err`.
SessionRejected(s) ==
  /\ sess[s].pc = "handshake"
  /\ sess[s].sock = "connecting"
  /\ Do(cleanup([World EXCEPT !.sess[s].sock = "closed"], s, "fail"))

\* callbacks.onclose
OnClose(s) ==
  /\ sess[s].sock \in {"connecting", "open", "closing", "errored"}
  /\ Do(cleanup([World EXCEPT !.sess[s].sock = "closed",
                              !.sess[s].isSocketOpen = FALSE], s, "close"))

\* callbacks.onerror: onError(e); cleanup().then(onDisconnect)
OnErrorEvt(s) ==
  /\ sess[s].sock \in {"connecting", "open", "closing"}
  /\ Do(cleanup(onError([World EXCEPT !.sess[s].sock = "errored"]),
                s, "error"))

\* cleanup: `await safeCloseAudioContext(inputAudioContext)` resumes.
InputContextClosed(s) ==
  /\ sess[s].cl = "closeIn"
  /\ LET c == sess[s] IN
     Do([World EXCEPT !.sess[s] =
           [c EXCEPT !.inCtx = "closed",
                     !.outCloses = IF c.outCtx # "closed" THEN @ + 1 ELSE @,
                     !.cl = "closeOut"]])

\* cleanup: `await safeCloseAudioContext(outputAudioContext)` resumes, cleanup
\* returns, and whoever awaited it goes on.
OutputContextClosed(s) ==
  /\ sess[s].cl = "closeOut"
  /\ Do(afterCleanup([World EXCEPT !.sess[s].outCtx = "closed",
                                   !.sess[s].cl = "done"],
                     s, sess[s].owner))

Lifecycle(cap) ==
  \/ ToggleStart(cap)
  \/ ToggleEnd
  \/ ErrorTimerFires
  \/ \E s \in 1..cap :
       \/ MicGranted(s)
       \/ MicDenied(s)
       \/ OnOpen(s)
       \/ SessionResolved(s)
       \/ SessionRejected(s)
       \/ OnClose(s)
       \/ OnErrorEvt(s)
       \/ InputContextClosed(s)
       \/ OutputContextClosed(s)

Next == Lifecycle(MaxSessions)

Spec == Init /\ [][Next]_vars

\* ------------------------------------------------------------------------
\* LiveTrafficTalk.tsx: the onTranscript and onMapAction callbacks
\* ------------------------------------------------------------------------
RECURSIVE TrimStart(_)
TrimStart(str) ==
  IF Len(str) > 0 /\ SubSeq(str, 1, 1) = " "
  THEN TrimStart(SubSeq(str, 2, Len(str))) ELSE str

RECURSIVE TrimEnd(_)
TrimEnd(str) ==
  IF Len(str) > 0 /\ SubSeq(str, Len(str), Len(str)) = " "
  THEN TrimEnd(SubSeq(str, 1, Len(str) - 1)) ELSE str

\* String.prototype.trim
Trim(str) == TrimEnd(TrimStart(str))

\* What the fragments and final markers handed to onTranscript stand for.
hear(w, sender, text, isFinal) ==
  LET h == w.heard[sender] \o text
      b == (IF sender = "user" THEN w.userBuf ELSE w.jhumaBuf) \o text
  IN
  IF ~isFinal THEN [w EXCEPT !.heard[sender] = h]
  ELSE [w EXCEPT !.heard[sender] = "",
                 !.finals = Append(@, [sender |-> sender, text |-> h,
                                       buf |-> b]),
                 !.expect = IF Trim(h) # ""
                            THEN Append(@, [sender |-> sender, text |-> h,
                                            buf |-> b, at |-> w.now])
                            ELSE @]

\* A duplicate check without the window: any earlier entry with the text.
isNewAnyAge(w, s) ==
  ~\E i \in DOMAIN w.sess[s].capt :
      /\ w.sess[s].capt[i].sender = "user"
      /\ w.sess[s].capt[i].text = w.userBuf

\* !transcript.some(t => t.sender === 'user' && t.text === buffer &&
\*                       parseInt(t.id) > Date.now() - 2000)
\* where `transcript` is the list of the render whose toggleSession made the
\* callback: session s's capt.
isNew(w, s) ==
  ~\E i \in DOMAIN w.sess[s].capt :
      /\ w.sess[s].capt[i].sender = "user"
      /\ w.sess[s].capt[i].text = w.userBuf
      /\ w.sess[s].capt[i].id + DedupWindowMs > w.now

onTranscriptUser(w, s, text, isFinal) ==
  LET w1 == [w EXCEPT !.userBuf = @ \o text]
      w2 == setStreaming(w1, "streamingUser", w1.userBuf)
      w3 == IF Trim(w2.userBuf) # "" /\ isNew(w2, s)
            THEN appendTranscript(w2, [sender |-> "user"]) ELSE w2
  IN IF isFinal
     THEN setStreaming([w3 EXCEPT !.userBuf = ""], "streamingUser", "")
     ELSE w2

\* The assistant's final marker appends whatever the buffer holds.
onTranscriptJhumaNoTrim(w, s, text, isFinal) ==
  LET w1 == [w EXCEPT !.jhumaBuf = @ \o text]
      w2 == setStreaming(w1, "streamingJhuma", w1.jhumaBuf)
      w3 == appendTranscript(w2, [sender |-> "jhuma"])
  IN IF isFinal
     THEN setStreaming([w3 EXCEPT !.jhumaBuf = ""], "streamingJhuma", "")
     ELSE w2

onTranscriptJhuma(w, s, text, isFinal) ==
  LET w1 == [w EXCEPT !.jhumaBuf = @ \o text]
      w2 == setStreaming(w1, "streamingJhuma", w1.jhumaBuf)
      w3 == IF Trim(w2.jhumaBuf) # ""
            THEN appendTranscript(w2, [sender |-> "jhuma"]) ELSE w2
  IN IF isFinal
     THEN setStreaming([w3 EXCEPT !.jhumaBuf = ""], "streamingJhuma", "")
     ELSE w2

onTranscript(w, s, sender, text, isFinal) ==
  IF sender = "user"
  THEN onTranscriptUser(hear(w, sender, text, isFinal), s, text, isFinal)
  ELSE onTranscriptJhuma(hear(w, sender, text, isFinal), s, text, isFinal)

\* A map action that also closes the assistant's utterance in progress.
onMapActionFinalizes(w, origin, destination) ==
  [appendTranscript(w, [sender |-> "system",
                        mapData |-> <<origin, destination>>])
     EXCEPT !.isExpanded = TRUE, !.jhumaBuf = "", !.streamingJhuma = ""]

onMapAction(w, origin, destination) ==
  [appendTranscript(w, [sender |-> "system",
                        mapData |-> <<origin, destination>>])
     EXCEPT !.isExpanded = TRUE]

\* ------------------------------------------------------------------------
\* gemini.ts: callbacks.onmessage
\* ------------------------------------------------------------------------
\* A message: out / inp are <<>> (no outputTranscription / inputTranscription)
\* or <<text>>; calls is toolCall.functionCalls.
onTranscription(w, s, m) ==
  IF m.out # <<>>
  THEN (IF m.out[1] # "" THEN onTranscript(w, s, "jhuma", m.out[1], FALSE)
        ELSE w)
  ELSE IF m.inp # <<>>
  THEN (IF m.inp[1] # "" THEN onTranscript(w, s, "user", m.inp[1], FALSE)
        ELSE w)
  ELSE w

onTurnComplete(w, s, m) ==
  IF m.turnComplete
  THEN onTranscript(onTranscript(w, s, "jhuma", "", TRUE),
                    s, "user", "", TRUE)
  ELSE w

\* A response that carries the function's name as its id.
sendToolResponseByName(w, s, fc) ==
  write([w EXCEPT !.acks = Append(@, <<s, fc.name>>)], s, "tool")

\* sessionPromise.then(session => session.sendToolResponse({
\*   functionResponses: [{ id: fc.id, ... }] }))
sendToolResponse(w, s, fc) ==
  write([w EXCEPT !.acks = Append(@, <<s, fc.id>>)], s, "tool")

onFunctionCall(w, s, fc) ==
  IF fc.name = "showMap"
  THEN sendToolResponse(
         onMapAction([w EXCEPT !.calls = Append(@, fc)],
                     fc.origin, fc.destination), s, fc)
  ELSE w

RECURSIVE onToolCall(_, _, _)
onToolCall(w, s, fcs) ==
  IF fcs = <<>> THEN w
  ELSE onToolCall(onFunctionCall(w, s, Head(fcs)), s, Tail(fcs))

\* What a message carries, noted before it is handled: its fragments and
\* the ids of its function calls.
receive(w, m) ==
  LET add(old, tr) == IF tr = <<>> THEN old ELSE old \o tr[1] IN
  [w EXCEPT !.carried = IF m.turnComplete THEN [user |-> "", jhuma |-> ""]
                        ELSE [user |-> add(@.user, m.inp),
                              jhuma |-> add(@.jhuma, m.out)],
            !.asked = @ \cup {m.calls[i].id : i \in DOMAIN m.calls}]

\* An inbound audio chunk is its base64 text, which atob accepts or not,
\* and the number of bytes it stands for.
\* base64ToBytes: atob throws on text that is not base64.
\* processPcmData: new Int16Array(data.buffer) throws on an odd number of
\* bytes, ctx.createBuffer throws on zero frames; the buffer has one frame
\* per two bytes, and its duration is its frames over the sample rate.
canDecodeAlways(chunk) == TRUE

canDecode(chunk) == chunk.b64 /\ chunk.len % 2 = 0 /\ chunk.len \div 2 > 0

frameCount(chunk) == chunk.len \div 2

Max(a, b) == IF a >= b THEN a ELSE b

NoChunk == [b64 |-> FALSE, len |-> 0]

Event(kind, c, chunk, start) ==
  [kind |-> kind, at |-> c.currentTime, before |-> c.nextStartTime,
   had |-> c.sources, chunk |-> chunk, start |-> start]

\* The chunk is scheduled at the clock's time, whatever nextStartTime is.
enqueueAtClock(w, s, chunk) ==
  LET c == w.sess[s]
      dur == frameCount(chunk)
  IN [w EXCEPT !.sess[s].nextStartTime = c.currentTime + dur,
               !.sess[s].sources = @ \cup {[start |-> c.currentTime,
                                            dur |-> dur]},
               !.sess[s].flushed = FALSE,
               !.played = Append(@, Event("scheduled", c, chunk,
                                          c.currentTime))]

\* source.start(nextStartTime); nextStartTime += audioBuffer.duration;
\* sources.add(source) -- after nextStartTime = Math.max(nextStartTime,
\* outputAudioContext.currentTime).
enqueue(w, s, chunk) ==
  LET c == w.sess[s]
      dur == frameCount(chunk)
      start == Max(c.nextStartTime, c.currentTime)
  IN [w EXCEPT !.sess[s].nextStartTime = start + dur,
               !.sess[s].sources = @ \cup {[start |-> start, dur |-> dur]},
               !.sess[s].flushed = FALSE,
               !.played = Append(@, Event("scheduled", c, chunk, start))]

\* The audio part of onmessage.  An exception leaves the handler: what
\* follows in it does not run.
onAudio(w, s, m) ==
  LET c == w.sess[s] IN
  IF m.audio = <<>> THEN w
  ELSE IF ~canDecode(m.audio[1]) \/ (c.outCtx = "closed" /\ w.ctxThrows)
  THEN [w EXCEPT !.sess[s].nextStartTime = Max(@, c.currentTime),
                 !.threw = TRUE,
                 !.played = Append(@, Event("failed", c, m.audio[1], 0))]
  ELSE enqueue(w, s, m.audio[1])

\* The interruption leaves nextStartTime as it is.
onInterruptedKeepTime(w, s, m) ==
  LET c == w.sess[s] IN
  IF w.threw \/ ~m.interrupted THEN w
  ELSE [w EXCEPT !.sess[s].sources = {}, !.sess[s].flushed = TRUE,
                 !.played = Append(@, Event("interrupted", c, NoChunk, 0))]

\* if (interrupted) { sources.forEach(stop); sources.clear();
\*                    nextStartTime = 0 }
onInterrupted(w, s, m) ==
  LET c == w.sess[s] IN
  IF w.threw \/ ~m.interrupted THEN w
  ELSE [w EXCEPT !.sess[s].sources = {}, !.sess[s].nextStartTime = 0,
                 !.sess[s].flushed = TRUE,
                 !.played = Append(@, Event("interrupted", c, NoChunk, 0))]

onmessage(w, s, m) ==
  onInterrupted(
    onAudio(
      onToolCall(onTurnComplete(onTranscription(receive(w, m), s, m), s, m),
                 s, m.calls),
      s, m),
    s, m)

Frags == {"a", " "}
Transcription == {<<>>} \cup {<<f>> : f \in Frags \cup {""}}
FunctionCalls ==
  {[name |-> "showMap", id |-> "c1", origin |-> "Gulshan",
    destination |-> "Banani"],
   [name |-> "showMap", id |-> "c2", origin |-> "Mirpur",
    destination |-> "Uttara"],
   [name |-> "other", id |-> "c3", origin |-> "Gulshan",
    destination |-> "Banani"]}
ToolLists ==
  {<<fc>> : fc \in FunctionCalls}
  \cup {<<f1, f2>> : f1 \in FunctionCalls, f2 \in FunctionCalls}

\* Messages that carry transcriptions and turn ends.
TalkMessages ==
  [out : Transcription, inp : Transcription, turnComplete : BOOLEAN,
   calls : {<<>>}, audio : {<<>>}, interrupted : {FALSE}]

\* Messages that carry tool calls, next to an assistant fragment or a turn
\* end.
ToolMessages ==
  [out : {<<>>, <<"a">>}, inp : {<<>>}, turnComplete : BOOLEAN,
   calls : ToolLists \cup {<<>>}, audio : {<<>>}, interrupted : {FALSE}]

FragLen(tr) == IF tr = <<>> THEN 0 ELSE Len(tr[1])
NumShowMap(fcs) == Cardinality({i \in DOMAIN fcs : fcs[i].name = "showMap"})

\* The messages the model lets arrive: the buffers, the transcript and the
\* log of calls stay within the bounds.
Fits(s, m) ==
  /\ Len(userBuf) + FragLen(m.inp) <= MaxBuf
  /\ Len(jhumaBuf) + FragLen(m.out) <= MaxBuf
  /\ Len(carried.user) + FragLen(m.inp) <= MaxBuf
  /\ Len(carried.jhuma) + FragLen(m.out) <= MaxBuf
  /\ Len(render(onmessage(World, s, m)).transcript) <= MaxTranscript
  /\ Len(calls) + NumShowMap(m.calls) <= MaxCalls
  /\ Len(onmessage(World, s, m).expect) <= MaxExpect
  /\ m.audio # <<>>
     => Max(sess[s].nextStartTime, sess[s].currentTime)
          + frameCount(m.audio[1]) <= MaxAudioTime

\* A message reaches the callback while the transport lasts; a close that
\* was requested locally does not stop the frames already on their way.
OnMessage(s, m) ==
  /\ sess[s].pc = "returned"
  /\ sess[s].sock \in {"open", "closing"}
  /\ Fits(s, m)
  /\ \E thr \in IF m.audio # <<>> /\ sess[s].outCtx = "closed"
                 THEN BOOLEAN ELSE {FALSE} :
       Do(onmessage([World EXCEPT !.ctxThrows = thr], s, m))

Tick ==
  /\ now < MaxClock * TickMs
  /\ Do([World EXCEPT !.now = @ + TickMs])

\* ------------------------------------------------------------------------
\* LiveTrafficTalk.tsx: the camera, and the sends of the control object
\* ------------------------------------------------------------------------
Conns == {NoConn} \cup (1..CamSessions)

\* toggleCamera, a button of the expanded view.  startCamera runs up to
\* `await getUserMedia`; it closes over this render's `connection`.  One
\* start per captured connection waits at a time.
ToggleCamera ==
  /\ isExpanded
  /\ IF isCameraOn THEN Do(stopCamera(World))
     ELSE /\ connection \notin camReq
          /\ camLive + Cardinality(camReq) < MaxCamLive
          /\ Do([World EXCEPT !.camReq = @ \cup {connection}])

\* startCamera after getUserMedia has resolved: the stream is stored and the
\* 100 ms timeout is set.
CamGranted(c) ==
  /\ c \in camReq
  /\ c \notin camTimers
  /\ Do([World EXCEPT !.camReq = @ \ {c}, !.streamRef = TRUE,
                      !.camLive = @ + 1, !.isExpanded = TRUE,
                      !.isCameraOn = TRUE, !.camTimers = @ \cup {c}])

\* startCamera's catch block.
CamDenied(c) ==
  /\ c \in camReq
  /\ Do([World EXCEPT !.camReq = @ \ {c}])

\* The 100 ms timeout of startCamera: with a captured connection it clears
\* the interval there is and sets one of its own.
CamTimerFires(c) ==
  /\ c \in camTimers
  /\ Do([World EXCEPT !.camTimers = @ \ {c},
                      !.videoInterval = IF c # NoConn THEN c ELSE @])

\* sendVideoFrame without the isSocketOpen check.
sendVideoFrameNoCheck(w, s) == write(w, s, "video")

sendVideoFrame(w, s) ==
  IF w.sess[s].pc = "nokey" THEN w
  ELSE IF w.sess[s].isSocketOpen THEN write(w, s, "video")
  ELSE drop(w, s, "video")

sendText(w, s) ==
  IF w.sess[s].pc = "nokey" THEN w
  ELSE IF w.sess[s].isSocketOpen THEN write(w, s, "text") ELSE drop(w, s, "text")

\* One tick of the 500 ms interval; the video element exists while the
\* camera view is shown.
VideoTick ==
  /\ videoInterval # 0
  /\ Do(IF isExpanded /\ isCameraOn
        THEN sendVideoFrame(World, videoInterval) ELSE World)

\* The control object's sendText, called by whoever holds the object.
SendText(s) ==
  /\ sess[s].pc = "returned"
  /\ Do(sendText(World, s))

\* scriptProcessor.onaudioprocess: one captured block.  The send waits on
\* sessionPromise while connectToJhumaLive awaits it.
AudioProcess(s) ==
  /\ sess[s].capture
  /\ sess[s].inCtx = "open"
  /\ LET c == sess[s] IN
     IF ~c.isSocketOpen \/ c.isCleaningUp THEN Do(drop(World, s, "audio"))
     ELSE IF c.pc = "handshake"
     THEN /\ c.pendAudio < MaxPendAudio
          /\ Do([World EXCEPT !.sess[s].pendAudio = @ + 1])
     ELSE Do(write(World, s, "audio"))

\* The collapse button of the expanded view.
Collapse ==
  /\ isExpanded
  /\ Do([World EXCEPT !.isExpanded = FALSE])

\* A click on the collapsed bar.
Expand ==
  /\ ~isExpanded
  /\ status = "connected"
  /\ Do([World EXCEPT !.isExpanded = TRUE])

\* A message with one showMap call.
ShowMapMessage ==
  [out |-> <<>>, inp |-> <<>>, turnComplete |-> FALSE,
   calls |-> <<[name |-> "showMap", id |-> "c1", origin |-> "Gulshan",
                destination |-> "Banani"]>>,
   audio |-> <<>>, interrupted |-> FALSE]

NextCam ==
  \/ Lifecycle(CamSessions)
  \/ ToggleCamera
  \/ VideoTick
  \/ Collapse
  \/ Expand
  \/ \E c \in Conns : CamGranted(c) \/ CamDenied(c) \/ CamTimerFires(c)
  \/ \E s \in 1..CamSessions :
       \/ SendText(s)
       \/ AudioProcess(s)
       \/ OnMessage(s, ShowMapMessage)

SpecCam == Init /\ [][NextCam]_vars

\* ------------------------------------------------------------------------
\* Session lifecycle: properties
\* ------------------------------------------------------------------------
\* Session s holds a microphone stream, an audio context or a transport
\* connection that has not been released.
Holds(s) ==
  \/ sess[s].mic = "live"
  \/ sess[s].inCtx = "open"
  \/ sess[s].outCtx = "open"
  \/ sess[s].sock \in {"connecting", "open", "closing", "errored"}

\* C1: no overlapping sessions -- at most one session at a time holds an
\* unreleased microphone stream, audio context or transport connection.
C1_NoOverlappingSessions == Cardinality({s \in Sessions : Holds(s)}) <= 1

\* C2: teardown idempotence -- for every session each release side effect
\* (flushing the playback sources, stopping the microphone tracks, closing
\* the input context, closing the output context) has run exactly once as
\* soon as teardown has got to it, never twice, whatever teardown requests
\* (disconnect, onclose, onerror) were made and in whatever order ...
C2_ReleasedOnce ==
  \A s \in Sessions :
    LET c == sess[s] IN
      /\ c.srcFlushes <= 1 /\ c.micStops <= 1
      /\ c.inCloses <= 1 /\ c.outCloses <= 1
      /\ c.tdReqs > 0 =>
           /\ c.isCleaningUp
           /\ c.srcFlushes = 1 /\ c.micStops = 1 /\ c.inCloses = 1
      /\ c.cl \in {"closeOut", "done"} => c.outCloses = 1
      /\ c.cl = "done" => c.mic = "stopped" /\ c.inCtx = "closed"
                          /\ c.outCtx = "closed"

Release(s) ==
  <<sess[s].srcFlushes, sess[s].micStops, sess[s].inCloses,
    sess[s].outCloses, sess[s].mic>>

\* ... and a teardown request made after the first one releases nothing.
C2_LaterRequestNoOp ==
  \A s \in Sessions :
    (sess[s].isCleaningUp /\ sess'[s].tdReqs > sess[s].tdReqs)
      => Release(s)' = Release(s)

C2_TeardownIdempotent == []C2_ReleasedOnce /\ [][C2_LaterRequestNoOp]_vars

\* A session whose teardown was requested at least twice and has completed.
C2_Witness ==
  \E s \in Sessions : sess[s].tdReqs >= 2 /\ sess[s].cl = "done"

StatusEdges ==
  {<<"idle", "connecting">>, <<"connecting", "connected">>,
   <<"connected", "idle">>, <<"connecting", "error">>,
   <<"connected", "error">>, <<"error", "idle">>}

\* C4: every change of the connection status follows one of the edges
\* idle->connecting, connecting->connected, connected->idle,
\* connecting->error, connected->error, error->idle.
C4_StatusFollowsEdges ==
  [][status' # status => <<status, status'>> \in StatusEdges]_vars

\* C5: once status is error it stays error until the 3-second timer fires,
\* and the firing takes it to idle; only the user starting a session takes
\* it elsewhere before.
C5_ErrorUntilTimeout ==
  [][(status = "error" /\ status' \notin {"error", "connecting"})
       => (status' = "idle" /\ errTimers' < errTimers)]_vars

\* C3: once a call has ended (status is idle again and no teardown is
\* running) every session that was started has its microphone tracks
\* stopped and both audio contexts closed, each released exactly once, and
\* no video-sampling interval and no camera timer of a call is left.
C3_ReleasedAfterEnd ==
  (status = "idle" /\ \A s \in Sessions : sess[s].cl \in {"idle", "done"})
  => /\ \A s \in Sessions :
          sess[s].pc # "none"
          => /\ sess[s].mic \in {"none", "stopped"}
             /\ sess[s].inCtx = "closed" /\ sess[s].outCtx = "closed"
             /\ sess[s].micStops <= 1
             /\ sess[s].inCloses = 1 /\ sess[s].outCloses = 1
     /\ videoInterval = 0
     /\ camTimers \subseteq {NoConn}

\* C8 (state part): an audio, video or text send writes to the session only
\* while the transport is open and no teardown has started.
C8_WritesOnlyWhenOpen ==
  \A r \in wrote :
    (r.sent /\ r.kind \in {"audio", "video", "text"})
    => /\ sess[r.s].sock = "open"
       /\ sess[r.s].isSocketOpen
       /\ ~sess[r.s].isCleaningUp

\* C8 (step part): a send that finds the transport not open leaves nothing
\* behind that a later step could deliver -- audio waits for the session only
\* when the block was captured with the transport open, and only while
\* connectToJhumaLive awaits the session.
C8_NothingKeptWhenNotOpen ==
  \A s \in Sessions :
    /\ sess'[s].pendAudio > sess[s].pendAudio
       => sess[s].isSocketOpen /\ ~sess[s].isCleaningUp
    /\ sess'[s].pendAudio > 0 => sess'[s].pc = "handshake"

\* C8: the audio send of the capture callback, sendVideoFrame and sendText
\* write nothing when the transport is not open, and what they drop is not
\* delivered later.
C8_SendsDroppedWhenNotOpen ==
  []C8_WritesOnlyWhenOpen /\ [][C8_NothingKeptWhenNotOpen]_vars

\* A video frame was dropped after teardown had started.
C8_Witness ==
  \E r \in wrote :
    ~r.sent /\ r.kind = "video" /\ sess[r.s].isCleaningUp

\* C9: every write to the session, the tool response included, is made
\* only while the transport is open and no teardown has been requested.
C9_EveryWriteWhenOpen ==
  \A r \in wrote :
    r.sent => /\ sess[r.s].sock = "open"
              /\ sess[r.s].isSocketOpen
              /\ ~sess[r.s].isCleaningUp

\* ------------------------------------------------------------------------
\* One connected session receiving messages (SpecTalk)
\* ------------------------------------------------------------------------
\* The state Spec reaches by ToggleStart, MicGranted(1), OnOpen(1),
\* SessionResolved(1): session 1 is connected, nothing has been said yet.
ConnectedSession ==
  [NoSession EXCEPT !.pc = "returned", !.sock = "open",
                    !.isSocketOpen = TRUE, !.mic = "live", !.inCtx = "open",
                    !.outCtx = "open", !.capture = TRUE]

Connected ==
  /\ status = "connected"
  /\ connection = 1
  /\ isExpanded = TRUE
  /\ isMuted = FALSE
  /\ errTimers = 0
  /\ isCameraOn = FALSE
  /\ streamRef = FALSE
  /\ videoInterval = 0
  /\ camReq = {}
  /\ camTimers = {}
  /\ camLive = 0
  /\ userBuf = ""
  /\ jhumaBuf = ""
  /\ streamingUser = ""
  /\ streamingJhuma = ""
  /\ transcript = <<>>
  /\ sess = [s \in Sessions |-> IF s = 1 THEN ConnectedSession ELSE NoSession]
  /\ now = 0
  /\ acks = <<>>
  /\ calls = <<>>
  /\ heard = [user |-> "", jhuma |-> ""]
  /\ expect = <<>>
  /\ carried = [user |-> "", jhuma |-> ""]
  /\ asked = {}
  /\ played = <<>>
  /\ history = {}
  /\ finals = <<>>
  /\ wrote = {}

InitTalk == Connected /\ pcm = NoSample /\ resample = NoBlock

NextTalk ==
  \/ Tick
  \/ \E m \in TalkMessages : OnMessage(1, m)

SpecTalk == InitTalk /\ [][NextTalk]_vars

NextTool == \E m \in ToolMessages : OnMessage(1, m)

SpecTool == InitTalk /\ [][NextTool]_vars

\* The text utterances of the transcript, in order.
RECURSIVE Utterances(_)
Utterances(tr) ==
  IF tr = <<>> THEN <<>>
  ELSE IF Head(tr).sender = "system" THEN Utterances(Tail(tr))
  ELSE <<[sender |-> Head(tr).sender, text |-> Head(tr).text]>>
       \o Utterances(Tail(tr))

\* The MapIntent entries of the transcript, in order.
RECURSIVE MapIntents(_)
MapIntents(tr) ==
  IF tr = <<>> THEN <<>>
  ELSE IF Head(tr).sender # "system" THEN MapIntents(Tail(tr))
  ELSE <<Head(tr).mapData>> \o MapIntents(Tail(tr))

\* C6: duplicate suppression -- the transcript never holds two user
\* utterances with the same text that were appended less than 2 seconds
\* apart.
C6_NoDuplicateWithinWindow ==
  \A i, j \in DOMAIN transcript :
    (/\ i < j
     /\ transcript[i].sender = "user" /\ transcript[j].sender = "user"
     /\ Trim(transcript[i].text) # ""
     /\ transcript[i].text = transcript[j].text)
    => transcript[j].id >= transcript[i].id + DedupWindowMs

\* C7: fragment concatenation -- each utterance of the transcript has as
\* its text the concatenation, in arrival order, of the fragments its sender
\* sent before the final marker; a sender's buffer and live view hold the
\* fragments received since that sender's last final marker, so both are
\* empty after a final marker.
C7_FragmentConcatenation ==
  /\ Utterances(transcript)
       = [i \in DOMAIN expect |->
            [sender |-> expect[i].sender, text |-> expect[i].text]]
  /\ userBuf = heard.user /\ streamingUser = heard.user
  /\ jhumaBuf = heard.jhuma /\ streamingJhuma = heard.jhuma

\* C10: tool round-trip -- the MapIntent entries of the transcript are, one
\* for one and in order, the origin and destination of the showMap calls
\* received, and the tool responses written to the session are, one for one
\* and in order, the ids of those calls.
C10_ToolRoundTrip ==
  /\ MapIntents(transcript)
       = [i \in DOMAIN calls |-> <<calls[i].origin, calls[i].destination>>]
  /\ acks = [i \in DOMAIN calls |-> <<1, calls[i].id>>]

\* Two showMap calls with different ids and destinations have been handled.
C10_Witness ==
  /\ Len(calls) = 2
  /\ calls[1].id # calls[2].id
  /\ calls[1].destination # calls[2].destination
  /\ Len(acks) = 2

\* ------------------------------------------------------------------------
\* One connected session playing inbound audio (SpecPlay)
\* ------------------------------------------------------------------------
AudioChunks == {<<[b64 |-> b, len |-> n]>> : b \in BOOLEAN, n \in 0..MaxBytes}

\* Messages that carry an audio chunk, an interruption, or both.
PlayMessages ==
  [out : {<<>>}, inp : {<<>>}, turnComplete : {FALSE}, calls : {<<>>},
   audio : AudioChunks \cup {<<>>}, interrupted : BOOLEAN]

\* The clock of the output context advances by one sample frame; the clock
\* of a closed context stands still.
AudioClockTick(s) ==
  /\ sess[s].outCtx = "open"
  /\ sess[s].currentTime < MaxAudioTime
  /\ Do([World EXCEPT !.sess[s].currentTime = @ + 1])

\* source 'ended': sources.delete(source)
SourceEnded(s) ==
  \E src \in sess[s].sources :
    /\ src.start + src.dur <= sess[s].currentTime
    /\ Do([World EXCEPT !.sess[s].sources = @ \ {src}])

NextPlay ==
  \/ \E m \in PlayMessages : OnMessage(1, m)
  \/ AudioClockTick(1)
  \/ SourceEnded(1)
  \/ ToggleEnd
  \/ OnClose(1)
  \/ InputContextClosed(1)
  \/ OutputContextClosed(1)

SpecPlay == InitTalk /\ [][NextPlay]_vars

\* C11: every function call received, whatever its name, has a tool
\* response carrying its id written to the session.  The response is written
\* in the step that handles the message, so a call without one in any state
\* never gets one.
C11_EveryCallAcknowledged ==
  \A id \in asked : \E i \in DOMAIN acks : acks[i][2] = id

\* C12: every non-empty fragment a message carries, input, output or both,
\* is handed to onTranscript once and in receipt order -- per sender, what
\* onTranscript got since the last final marker is what the messages
\* carried.
C12_EveryFragmentDelivered ==
  /\ heard.user = carried.user
  /\ heard.jhuma = carried.jhuma

\* C13: playback ordering -- a chunk is scheduled to start at the later of
\* the clock and nextStartTime, and nextStartTime then is that start plus
\* the chunk's duration; a chunk starts no earlier than every source
\* scheduled before it ends, so the scheduled sources never overlap.
C13_PlaybackOrdering ==
  /\ \A i \in DOMAIN played :
       played[i].kind = "scheduled"
       => /\ played[i].start = Max(played[i].at, played[i].before)
          /\ \A a \in played[i].had : a.start + a.dur <= played[i].start
          /\ i = Len(played)
             => sess[1].nextStartTime
                  = played[i].start + played[i].chunk.len \div 2
  /\ \A a, b \in sess[1].sources :
       a # b => (a.start + a.dur <= b.start \/ b.start + b.dur <= a.start)

\* A chunk of one frame was scheduled right behind a chunk of two frames
\* that is still queued: it starts two frames after that chunk's start.
C13_Witness ==
  /\ Len(played) = 1
  /\ played[1].kind = "scheduled"
  /\ played[1].chunk.len = 2
  /\ \E a \in played[1].had : a.dur = 2 /\ played[1].start = a.start + 2
  /\ played[1].start > played[1].at

\* C14 (state part): once an interruption has been handled the set of
\* active sources is empty and nextStartTime is not ahead of the clock.
C14_FlushedByInterrupt ==
  (played # <<>> /\ played[Len(played)].kind = "interrupted")
  => /\ sess[1].sources = {}
     /\ sess[1].flushed
     /\ sess[1].nextStartTime <= sess[1].currentTime

\* C14 (step part): the first chunk scheduled after an interruption starts
\* at the clock's time.
C14_NextChunkAtClock ==
  (sess[1].flushed /\ played' # <<>> /\ played'[1].kind = "scheduled")
  => played'[1].start = played'[1].at

\* C14: interrupt clears state.
C14_InterruptClearsState ==
  []C14_FlushedByInterrupt /\ [][C14_NextChunkAtClock]_vars

\* An interruption was handled while sources were queued and nextStartTime
\* was ahead of the clock.
C14_Witness ==
  /\ played # <<>>
  /\ played[Len(played)].kind = "interrupted"
  /\ played[Len(played)].had # {}
  /\ played[Len(played)].before > played[Len(played)].at

\* C15: once the teardown of a session has run its set of active playback
\* sources is empty and stays empty.
C15_NoSourceAfterTeardown ==
  \A s \in Sessions : sess[s].isCleaningUp => sess[s].sources = {}

\* A chunk that does not decode: its text is not base64, or it stands for
\* an odd number of bytes or for none.
Malformed(chunk) == ~chunk.b64 \/ chunk.len % 2 = 1 \/ chunk.len = 0

\* C20 (state part): a chunk that fails to decode is skipped -- no source is
\* added, and nextStartTime is advanced by no duration: the next chunk
\* starts where it would have started without the bad one.
C20_BadChunkSkipped ==
  \A i \in DOMAIN played :
    (played[i].kind # "interrupted" /\ Malformed(played[i].chunk))
    => /\ played[i].kind = "failed"
       /\ sess[1].sources = played[i].had
       /\ Max(sess[1].nextStartTime, sess[1].currentTime)
            = Max(played[i].before, played[i].at)

\* C20 (step part): a well-formed chunk that arrives after a bad one is
\* scheduled as if the bad one had not been received.
C20_GoodChunkAfterBad ==
  (/\ played # <<>> /\ played[1].kind = "failed"
   /\ played' # <<>> /\ played'[1].kind = "scheduled")
  => played'[1].start = Max(played'[1].at, played[1].before)

\* C20: decode errors skip the chunk and leave the queue as it was.
C20_DecodeErrorSkipsChunk ==
  []C20_BadChunkSkipped /\ [][C20_GoodChunkAfterBad]_vars

\* A chunk of base64 text with an odd number of bytes failed while sources
\* were queued ahead of the clock.
C20_Witness ==
  /\ Len(played) = 1
  /\ played[1].kind = "failed"
  /\ played[1].chunk.b64 /\ played[1].chunk.len % 2 = 1
  /\ played[1].had # {}
  /\ played[1].before > played[1].at

\* C16: whenever status goes from connected to idle, by the user's end or
\* by the transport closing, the transcript list of the session has been
\* handed to the history store.
C16_TranscriptSavedOnIdle ==
  [][(status = "connected" /\ status' = "idle" /\ transcript' # <<>>)
       => transcript' \in history']_vars

\* C17: the teardown that disconnect() performs starts only once the
\* transport has confirmed the close.
C17_TeardownAfterCloseConfirmed ==
  [][\A s \in Sessions :
       (/\ ~sess[s].isCleaningUp
        /\ sess'[s].isCleaningUp
        /\ sess'[s].owner \in {"end", "effect"})
       => sess'[s].sock = "closed"]_vars

\* C18: when connectToJhumaLive has failed, the audio contexts it had
\* created are closed and the microphone it had acquired is stopped.
C18_ReleasedOnFailure ==
  \A s \in Sessions :
    sess[s].pc = "failed"
    => /\ sess[s].inCtx = "closed"
       /\ sess[s].outCtx = "closed"
       /\ sess[s].mic \in {"none", "stopped"}

\* C19 (state part): a session whose microphone could not be opened never
\* attempts a transport connection, never captures and never runs a
\* teardown that would call onDisconnect; and while status is error the
\* timer that returns it to idle is pending.
C19_NeverStarts ==
  /\ \A s \in Sessions :
       (sess[s].pc = "failed" /\ sess[s].mic = "none")
       => /\ sess[s].sock = "none"
          /\ ~sess[s].capture
          /\ ~sess[s].isSocketOpen
          /\ sess[s].tdReqs = 0
  /\ status = "error" => errTimers > 0

\* C19 (step part): the failure to open the microphone sets status error
\* and the timer, and touches neither the connection handle, the mute flag
\* nor any other session; the timer sets status idle.
C19_SingleError ==
  /\ \A s \in Sessions :
       (sess[s].pc = "mic" /\ sess'[s].pc = "failed")
       => /\ status' = "error"
          /\ errTimers' = errTimers + 1
          /\ connection' = connection
          /\ isMuted' = isMuted
          /\ \A o \in Sessions \ {s} : sess'[o] = sess[o]
  /\ errTimers' < errTimers => status' = "idle"

\* C19: a microphone that cannot be opened gives one error to the caller
\* and nothing else.
C19_MicFailure ==
  []C19_NeverStarts /\ [][C19_SingleError]_vars

\* The microphone of a session could not be opened, and status has been
\* error and is idle again.
C19_Witness ==
  /\ \E s \in Sessions : sess[s].pc = "failed" /\ sess[s].mic = "none"
  /\ status = "idle"
  /\ errTimers = 0

\* ------------------------------------------------------------------------
\* Opening, start, camera, transcript and mute: properties
\* ------------------------------------------------------------------------
\* C21 (state part): audio is written, or waits to be written, only to a
\* session whose onopen has fired (the capture pipeline exists and the
\* transport has been open), and status is connected only when the onopen of
\* some session has fired.
C21_NothingBeforeOpen ==
  /\ \A r \in wrote :
       (r.kind = "audio" /\ r.sent)
       => sess[r.s].capture /\ sess[r.s].sock \notin {"none", "connecting"}
  /\ \A s \in Sessions :
       (sess[s].pendAudio > 0 \/ sess[s].capture \/ sess[s].isSocketOpen)
       => sess[s].sock \notin {"none", "connecting"}
  /\ status = "connected" => \E s \in Sessions : sess[s].capture

\* C21 (step part): status becomes connected only in the step in which the
\* transport of a session goes from connecting to open, and that step is the
\* one that enables the session's capture.
C21_ConnectedByOpen ==
  (status # "connected" /\ status' = "connected")
  => \E s \in Sessions :
       /\ sess[s].sock = "connecting" /\ ~sess[s].capture
       /\ sess'[s].sock = "open" /\ sess'[s].isSocketOpen
       /\ sess'[s].capture

\* C21: status is connected, and audio is forwarded, only after onopen.
C21_ConnectedAfterOpen ==
  []C21_NothingBeforeOpen /\ [][C21_ConnectedByOpen]_vars

\* Status is connected and a captured block has just been written to the
\* session.
C21_Witness ==
  /\ status = "connected"
  /\ \E r \in wrote : r.kind = "audio" /\ r.sent /\ sess[r.s].capture

\* ------------------------------------------------------------------------
\* A connected session that talks, ends and is followed by a second one
\* (SpecRestart)
\* ------------------------------------------------------------------------
Fragment(sender) ==
  [out |-> IF sender = "jhuma" THEN <<"a">> ELSE <<>>,
   inp |-> IF sender = "user" THEN <<"a">> ELSE <<>>,
   turnComplete |-> FALSE, calls |-> <<>>, audio |-> <<>>,
   interrupted |-> FALSE]

TurnComplete == [Fragment("none") EXCEPT !.turnComplete = TRUE]

RestartMessages == {Fragment("user"), Fragment("jhuma"), ShowMapMessage}

NextRestart ==
  \/ \E m \in RestartMessages : OnMessage(1, m)
  \/ ToggleEnd
  \/ OnClose(1)
  \/ InputContextClosed(1)
  \/ OutputContextClosed(1)
  \/ ToggleStart(MaxSessions)

SpecRestart == InitTalk /\ [][NextRestart]_vars

\* C22: the step that starts a session (toggleSession's start branch up to
\* its await) leaves both fragment buffers, both live views and the
\* transcript list empty, and the session it starts has had no callback yet:
\* its transport has not been asked for.
C22_StartResets ==
  [][\A s \in Sessions :
       (sess[s].pc = "none" /\ sess'[s].pc # "none")
       => /\ status' = "connecting"
          /\ userBuf' = "" /\ jhumaBuf' = ""
          /\ streamingUser' = "" /\ streamingJhuma' = ""
          /\ transcript' = <<>>
          /\ sess'[s].pc = "mic" /\ sess'[s].sock = "none"
          /\ ~sess'[s].capture]_vars

\* A second session has just been started after the first one had left
\* fragments of both senders without a final marker and a saved transcript.
C22_Witness ==
  /\ sess[2].pc = "mic"
  /\ heard.user # "" /\ heard.jhuma # ""
  /\ history # {}
  /\ userBuf = "" /\ jhumaBuf = "" /\ transcript = <<>>

CountOf(list, sender) ==
  Cardinality({i \in DOMAIN list : list[i].sender = sender})

\* C24: empty-final is a no-op append -- for either sender, a step appends
\* no more utterances of the sender than it handled final markers of the
\* sender with an accumulated buffer that is not empty or whitespace-only; so
\* a final marker on an empty or whitespace-only buffer appends nothing.
C24_EmptyFinalNoAppend ==
  [][\A sender \in {"user", "jhuma"} :
       CountOf(transcript', sender) - CountOf(transcript, sender)
         <= Cardinality({i \in DOMAIN finals' :
                           /\ finals'[i].sender = sender
                           /\ Trim(finals'[i].buf) # ""})]_vars

\* A turn has just ended with a user buffer of one space and an empty
\* assistant buffer, and the transcript is as long as it was.
C24_Witness ==
  /\ \E i \in DOMAIN finals :
       finals[i].sender = "user" /\ finals[i].buf = " "
  /\ \E i \in DOMAIN finals :
       finals[i].sender = "jhuma" /\ finals[i].buf = ""
  /\ transcript = <<>>
  /\ userBuf = "" /\ jhumaBuf = ""

\* ------------------------------------------------------------------------
\* The user repeating an utterance, within a session and across a restart
\* (SpecDedup)
\* ------------------------------------------------------------------------
NextDedup ==
  \/ Tick
  \/ ToggleEnd
  \/ ToggleStart(MaxSessions)
  \/ \E s \in Sessions :
       \/ MicGranted(s)
       \/ OnOpen(s)
       \/ SessionResolved(s)
       \/ InputContextClosed(s)
       \/ OutputContextClosed(s)
       \/ OnMessage(s, Fragment("user"))
       \/ OnMessage(s, TurnComplete)

SpecDedup == InitTalk /\ [][NextDedup]_vars

\* C25: a user utterance finalized more than 2 seconds after every earlier
\* finalization of the same text is appended to the transcript -- so of two
\* identical utterances finalized more than 2 seconds apart (3 seconds, say)
\* the later one is appended as the earlier one was, giving two entries.
C25_AppendedBeyondWindow ==
  [][\A i \in DOMAIN finals' :
       (/\ finals'[i].sender = "user"
        /\ Trim(finals'[i].buf) # ""
        /\ \A k \in DOMAIN expect :
             (expect[k].sender = "user" /\ expect[k].buf = finals'[i].buf)
             => now' - expect[k].at > DedupWindowMs)
       => /\ CountOf(transcript', "user") = CountOf(transcript, "user") + 1
          /\ transcript'[Len(transcript')].sender = "user"
          /\ transcript'[Len(transcript')].id = now']_vars

\* The user said the same text at 0 and 3 seconds later, and the transcript
\* holds both.
C25_Witness ==
  /\ Len(expect) = 2
  /\ expect[1].sender = "user" /\ expect[2].sender = "user"
  /\ expect[1].buf = expect[2].buf
  /\ expect[2].at - expect[1].at > DedupWindowMs
  /\ Len(transcript) = 2
  /\ transcript[1].text = expect[1].buf
  /\ transcript[2].text = expect[2].buf
  /\ transcript[1].id = expect[1].at /\ transcript[2].id = expect[2].at

\* ------------------------------------------------------------------------
\* A connected session that plays, captures and is muted (SpecMute)
\* ------------------------------------------------------------------------
\* Muting that also takes the capture pipeline down and up.
setMutedSuspends(w, s, muted) ==
  [w EXCEPT !.sess[s].enabled = ~muted, !.sess[s].capture = ~muted]

\* stream.getAudioTracks().forEach(track => { track.enabled = !muted })
setMuted(w, s, muted) ==
  IF w.sess[s].pc = "nokey" THEN w ELSE [w EXCEPT !.sess[s].enabled = ~muted]

\* toggleMute, a button of the expanded view.
ToggleMute ==
  /\ isExpanded
  /\ Do(IF connection # NoConn
        THEN [setMuted(World, connection, ~isMuted)
                EXCEPT !.isMuted = ~isMuted]
        ELSE World)

NextMute ==
  \/ NextPlay
  \/ ToggleMute
  \/ AudioProcess(1)

SpecMute == InitTalk /\ [][NextMute]_vars

\* C26 (step part): a step that changes the enabled flag of a session's
\* microphone tracks changes nothing else of the session -- transport,
\* capture pipeline, teardown and playback queue are as they were -- and
\* leaves the connection status, the connection handle and the transcript
\* state unchanged.
C26_OnlyEnabledChanges ==
  \A s \in Sessions :
    sess'[s].enabled # sess[s].enabled
    => /\ sess' = [sess EXCEPT ![s].enabled = ~@]
       /\ status' = status
       /\ connection' = connection
       /\ UNCHANGED <<transcript, userBuf, jhumaBuf, streamingUser,
                      streamingJhuma, isCameraOn, videoInterval, errTimers,
                      acks, history>>
       /\ wrote' = {} /\ played' = <<>>

\* C26 (state part): whatever the enabled flag is, a captured block is
\* dropped only when the transport is not open or teardown has started.
C26_CadenceKept ==
  \A r \in wrote :
    (r.kind = "audio" /\ ~r.sent)
    => (~sess[r.s].isSocketOpen \/ sess[r.s].isCleaningUp)

\* C26: mute does not stop chunk cadence.
C26_MuteKeepsCadence ==
  []C26_CadenceKept /\ [][C26_OnlyEnabledChanges]_vars

\* A captured block has just been sent with the microphone tracks disabled,
\* while a source is queued for playback.
C26_Witness ==
  /\ isMuted /\ ~sess[1].enabled
  /\ sess[1].sources # {}
  /\ \E r \in wrote : r.kind = "audio" /\ r.sent /\ r.s = 1

\* str begins with pre.
StartsWith(str, pre) ==
  Len(pre) <= Len(str) /\ SubSeq(str, 1, Len(pre)) = pre

\* C27 (state part): a MapIntent is an entry of its own kind -- an entry of
\* sender system carries map data and no text, an entry of a speaker carries
\* text and no map data.
C27_MapIntentApart ==
  \A i \in DOMAIN transcript :
    IF transcript[i].sender = "system"
    THEN DOMAIN transcript[i] = {"id", "sender", "mapData"}
    ELSE DOMAIN transcript[i] = {"id", "sender", "text"}

\* C27 (step part): a step that handles showMap calls appends their
\* MapIntents, in order, behind the entries there are; when the step handles
\* no final marker it appends no utterance and cuts nothing off either
\* buffer, and when its message carries no fragment either, both buffers and
\* both live views are as they were.
C27_MapActionFrame ==
  calls' # calls
  => /\ MapIntents(transcript')
          = MapIntents(transcript)
            \o [i \in 1..(Len(calls') - Len(calls)) |->
                  <<calls'[Len(calls) + i].origin,
                    calls'[Len(calls) + i].destination>>]
     /\ finals' = <<>>
        => /\ Utterances(transcript') = Utterances(transcript)
           /\ SubSeq(transcript', 1, Len(transcript)) = transcript
           /\ StartsWith(userBuf', userBuf)
           /\ StartsWith(jhumaBuf', jhumaBuf)
     /\ (finals' = <<>> /\ carried' = carried)
        => UNCHANGED <<userBuf, jhumaBuf, streamingUser, streamingJhuma>>

\* C27: a showMap invocation appends its MapIntent as an entry of its own
\* and leaves the fragment buffers and the live views alone.
C27_MapIntentSeparate ==
  []C27_MapIntentApart /\ [][C27_MapActionFrame]_vars

\* A showMap call has just been handled while both senders had a fragment
\* accumulated: the MapIntent is the last entry and the fragments are still
\* in the buffers and in the live views.
C27_Witness ==
  /\ \E r \in wrote : r.kind = "tool"
  /\ transcript # <<>>
  /\ transcript[Len(transcript)].sender = "system"
  /\ userBuf = "a" /\ streamingUser = "a"
  /\ jhumaBuf = "a" /\ streamingJhuma = "a"

\* The texts of a sender's entries in a list of utterances, in order.
TextsOf(list, sender) ==
  LET own == SelectSeq(list, LAMBDA e : e.sender = sender)
  IN [i \in DOMAIN own |-> own[i].text]

\* C28: per-sender independence -- however the fragments of the two senders
\* interleave, each sender's buffer holds that sender's own fragments since
\* its last final marker, and the texts of a sender's utterances in the
\* transcript are, one for one, the concatenations of that sender's own
\* fragments between its final markers.
C28_PerSenderIndependence ==
  \A sender \in {"user", "jhuma"} :
    /\ TextsOf(transcript, sender) = TextsOf(expect, sender)
    /\ (IF sender = "user" THEN userBuf ELSE jhumaBuf) = heard[sender]

\* ------------------------------------------------------------------------
\* A connected session ended while calls of its teardown fail (SpecFail)
\* ------------------------------------------------------------------------
Failures == {"close", "source", "track"}

\* End clicked while the calls in f throw.
ToggleEndFailing(f) ==
  /\ status \in {"connected", "connecting"}
  /\ Do(endSession([World EXCEPT !.fails = f]))

\* cleanup: inputAudioContext.close() rejects; safeCloseAudioContext catches
\* and cleanup goes on to the output context.
InputContextCloseFails(s) ==
  /\ sess[s].cl = "closeIn"
  /\ LET c == sess[s] IN
     Do([World EXCEPT !.sess[s] =
           [c EXCEPT !.outCloses = IF c.outCtx # "closed" THEN @ + 1 ELSE @,
                     !.cl = "closeOut"]])

\* cleanup: outputAudioContext.close() rejects; safeCloseAudioContext
\* catches, cleanup returns, and whoever awaited it goes on.
OutputContextCloseFails(s) ==
  /\ sess[s].cl = "closeOut"
  /\ Do(afterCleanup([World EXCEPT !.sess[s].cl = "done"], s, sess[s].owner))

NextFail ==
  \/ NextPlay
  \/ \E f \in (SUBSET Failures) \ {{}} : ToggleEndFailing(f)
  \/ InputContextCloseFails(1)
  \/ OutputContextCloseFails(1)

SpecFail == InitTalk /\ [][NextFail]_vars

\* C29: disconnect() always resolves and never rejects -- called
\* repeatedly, on a session that is closed already, and when session.close(),
\* the stop() of a source or of a track, or the close() of an audio context
\* fails.
C29_DisconnectNeverRejects ==
  \A s \in Sessions : sess[s].disc # "rejected"

\* ------------------------------------------------------------------------
\* One sample through the PCM16 encoder and decoder (SpecPcm)
\* ------------------------------------------------------------------------
\* A sample is the rational k / SampleScale, given as k; the samples of a
\* block lie in [-1, 1] and a little beyond.
Samples == (0 - SampleScale - 2)..(SampleScale + 2)

\* Math.max(-1, Math.min(1, x))
clamp(k) ==
  IF k > SampleScale THEN SampleScale
  ELSE IF k < 0 - SampleScale THEN 0 - SampleScale ELSE k

\* Storing a number in an Int16Array: the fraction is cut off, towards
\* zero, and the integer is taken modulo 2^16 into [-32768, 32767].
ToInt16(num, den) ==
  LET int == IF num < 0 THEN 0 - ((0 - num) \div den) ELSE num \div den
  IN ((int + 32768) % 65536) - 32768

\* Every sample is scaled by 0x8000, the sample 1 included.
encodeSampleOneScale(k) == ToInt16(clamp(k) * NegScale, SampleScale)

\* const s = Math.max(-1, Math.min(1, x));
\* pcmData[i] = s < 0 ? s * 0x8000 : s * 0x7FFF
encodeSample(k) ==
  LET s == clamp(k) IN
  IF s < 0 THEN ToInt16(s * NegScale, SampleScale)
  ELSE ToInt16(s * PosScale, SampleScale)

\* channelData[i] = dataInt16[i] / 32768.0, as a fraction
decodeSample(v) == [num |-> v, den |-> DecodeScale]

InitPcm ==
  /\ Connected
  /\ pcm \in [sample : Samples, encoded : {<<>>}, decoded : {<<>>}]
  /\ resample = NoBlock

\* onaudioprocess: the sample is encoded for the chunk.
EncodeSample ==
  /\ sess[1].capture
  /\ pcm.encoded = <<>>
  /\ Do([World EXCEPT !.pcm.encoded = <<encodeSample(pcm.sample)>>])

\* processPcmData: the 16-bit value is decoded for the buffer.
DecodeSample ==
  /\ pcm.encoded # <<>>
  /\ pcm.decoded = <<>>
  /\ Do([World EXCEPT !.pcm.decoded = <<decodeSample(pcm.encoded[1])>>])

NextPcm == EncodeSample \/ DecodeSample

SpecPcm == InitPcm /\ [][NextPcm]_vars

Abs(x) == IF x < 0 THEN 0 - x ELSE x

\* The sample has been encoded and decoded, and it lies in [-1, 1].
RoundTripDone ==
  /\ pcm.decoded # <<>>
  /\ 0 - SampleScale <= pcm.sample /\ pcm.sample <= SampleScale

\* |sample - decoded| in units of 1 / (SampleScale * DecodeScale).
RoundTripError ==
  Abs(pcm.sample * pcm.decoded[1].den - pcm.decoded[1].num * SampleScale)

\* C30, as stated: PCM round-trip -- for every sample in [-1, 1], encoding
\* it to PCM16 and decoding the result yields a value whose distance from the
\* sample is at most 1/32768.
C30_RoundTripWithinOneStep ==
  RoundTripDone => RoundTripError <= SampleScale

\* C30, amended: the distance is less than 2/32768 for every sample in
\* [-1, 1], and at most 1/32768 for every sample that is negative or 1.
C30_RoundTripWithinTwoSteps ==
  RoundTripDone
  => /\ RoundTripError < 2 * SampleScale
     /\ (pcm.sample < 0 \/ pcm.sample = SampleScale)
        => RoundTripError <= SampleScale

\* A positive sample came back more than one step below it.
C30_Witness ==
  /\ RoundTripDone
  /\ pcm.sample > 0
  /\ RoundTripError > SampleScale
  /\ pcm.decoded[1].num * SampleScale < pcm.sample * pcm.decoded[1].den

\* ------------------------------------------------------------------------
\* One captured block through downsampleBuffer (SpecDown)
\* ------------------------------------------------------------------------
\* A sample of a Float32Array is a fraction num / den; a read outside the
\* array gives undefined.
Sample(k) == [num |-> k, den |-> 1]
Undefined == [num |-> 0, den |-> 0]

\* buffer[j], j counted from 0
At(buffer, j) ==
  IF j >= 0 /\ j < Len(buffer) THEN buffer[j + 1] ELSE Undefined

\* for (let j = offset; j < nextOffset && j < buffer.length; j++) {
\*   sum += buffer[j]; count++ }
RECURSIVE window(_, _, _, _)
window(buffer, j, nextOffset, acc) ==
  IF j < nextOffset /\ j < Len(buffer)
  THEN window(buffer, j + 1, nextOffset,
              [sum |-> acc.sum + At(buffer, j).num, count |-> acc.count + 1])
  ELSE acc

\* Math.round(buffer.length / ratio), ratio = inputRate / outputRate
newLength(buffer, inputRate, outputRate) ==
  (2 * Len(buffer) * outputRate + inputRate) \div (2 * inputRate)

\* An empty window gives 0.
outputSampleZeroFill(buffer, inputRate, outputRate, i) ==
  LET offset == (i * inputRate) \div outputRate
      nextOffset == ((i + 1) * inputRate) \div outputRate
      w == window(buffer, offset, nextOffset, [sum |-> 0, count |-> 0])
  IN IF w.count > 0 THEN [num |-> w.sum, den |-> w.count] ELSE Sample(0)

\* The body of the loop over i: result[i] = count > 0 ? sum / count
\*                                                    : buffer[offset]
outputSample(buffer, inputRate, outputRate, i) ==
  LET offset == (i * inputRate) \div outputRate
      nextOffset == ((i + 1) * inputRate) \div outputRate
      w == window(buffer, offset, nextOffset, [sum |-> 0, count |-> 0])
  IN IF w.count > 0 THEN [num |-> w.sum, den |-> w.count]
     ELSE At(buffer, offset)

\* Every block goes through the loop, and the loop stops one sample early.
downsampleBufferDropsLast(buffer, inputRate, outputRate) ==
  LET n == newLength(buffer, inputRate, outputRate)
  IN [i \in 1..(IF n > 0 THEN n - 1 ELSE 0) |->
        outputSample(buffer, inputRate, outputRate, i - 1)]

downsampleBuffer(buffer, inputRate, outputRate) ==
  IF outputRate = inputRate THEN buffer
  ELSE [i \in 1..newLength(buffer, inputRate, outputRate) |->
          outputSample(buffer, inputRate, outputRate, i - 1)]

Blocks ==
  UNION {[1..n -> {Sample(k) : k \in 0..MaxSample}] : n \in 0..MaxFrame}

InitDown ==
  /\ Connected
  /\ pcm = NoSample
  /\ resample \in [buffer : Blocks, inputRate : 1..MaxRate,
                   outputRate : 1..MaxRate, result : {<<>>}]

\* onaudioprocess: downsampleBuffer(inputData, inputSampleRate,
\* targetSampleRate)
Downsample ==
  /\ sess[1].capture
  /\ resample.result = <<>>
  /\ Do([World EXCEPT !.resample.result =
           <<downsampleBuffer(resample.buffer, resample.inputRate,
                              resample.outputRate)>>])

NextDown == Downsample

SpecDown == InitDown /\ [][NextDown]_vars

\* The sum of the samples of a block with indices (from 0) in a set.
RECURSIVE SumAt(_, _)
SumAt(buffer, idx) ==
  IF idx = {} THEN 0
  ELSE LET j == CHOOSE x \in idx : TRUE
       IN buffer[j + 1].num + SumAt(buffer, idx \ {j})

\* The indices of window i: from floor(i * ratio) up to but excluding
\* floor((i + 1) * ratio), clipped to the block.
WindowOf(i) ==
  {j \in 0..(Len(resample.buffer) - 1) :
     /\ (i * resample.inputRate) \div resample.outputRate <= j
     /\ j < ((i + 1) * resample.inputRate) \div resample.outputRate}

\* C31: downsample windows -- with different rates, output sample i is the
\* arithmetic mean of the input samples of window i; when the window holds
\* no sample it is the input sample at index floor(i * ratio), and that
\* index lies inside the input.
C31_DownsampleWindows ==
  (resample.result # <<>> /\ resample.inputRate # resample.outputRate)
  => \A i \in 0..(Len(resample.result[1]) - 1) :
       LET out == resample.result[1][i + 1]
           start == (i * resample.inputRate) \div resample.outputRate
       IN IF WindowOf(i) # {}
          THEN /\ out.den = Cardinality(WindowOf(i))
               /\ out.num = SumAt(resample.buffer, WindowOf(i))
          ELSE /\ start < Len(resample.buffer)
               /\ out = resample.buffer[start + 1]

\* A block was brought from rate 2 to rate 3: the first window holds no
\* sample, and the first output sample is the first input sample, not 0.
C31_Witness ==
  /\ resample.result # <<>>
  /\ resample.inputRate = 2 /\ resample.outputRate = 3
  /\ resample.buffer # <<>>
  /\ WindowOf(0) = {}
  /\ resample.result[1][1] = resample.buffer[1]
  /\ resample.buffer[1].num > 0

\* C33: downsample identity -- with equal rates the result is the input
\* block: the same length and the same samples, for every rate and every
\* block, the empty one included.
C33_DownsampleIdentity ==
  (resample.result # <<>> /\ resample.inputRate = resample.outputRate)
  => resample.result[1] = resample.buffer

\* A block of the greatest length went through with equal rates other than 1.
C33_Witness ==
  /\ resample.result # <<>>
  /\ resample.inputRate = resample.outputRate
  /\ resample.inputRate > 1
  /\ Len(resample.buffer) = MaxFrame
  /\ resample.result[1] = resample.buffer

\* C32: a chunk with an odd number of bytes is no error -- it decodes to
\* floor(bytes / 2) samples, the trailing byte ignored.  Stated for chunks
\* of base64 text of three bytes or more handled while the output context
\* is open: the chunk is scheduled, with one frame per two whole bytes.
C32_OddLengthDecodes ==
  \A i \in DOMAIN played :
    (/\ played[i].kind # "interrupted"
     /\ played[i].chunk.b64
     /\ played[i].chunk.len % 2 = 1
     /\ played[i].chunk.len > 2
     /\ sess[1].outCtx = "open")
    => /\ played[i].kind = "scheduled"
       /\ \E src \in sess[1].sources :
            /\ src.start = played[i].start
            /\ src.dur = played[i].chunk.len \div 2

\* C34 (state part): the microphone, audio contexts and transport of a
\* session the user ended while it was connecting are being released or
\* have been: its teardown was started by the end itself.
C34_EndedIsReleased ==
  \A s \in Sessions : sess[s].ended => sess[s].isCleaningUp

\* C34 (step part): the transport of such a session does not open and set
\* status to connected.
C34_EndedNeverConnects ==
  \A s \in Sessions :
    (sess[s].ended /\ sess[s].sock = "connecting" /\ sess'[s].sock = "open")
    => status' # "connected"

\* C34: ending the call while status is connecting cancels the pending
\* session -- it never reaches status connected, and what it holds is
\* released without further user action.
C34_EndCancelsPending ==
  []C34_EndedIsReleased /\ [][C34_EndedNeverConnects]_vars

\* C35: the error timer only ever takes status from error to idle -- a
\* firing that finds status no longer error leaves status as it is, so it
\* never sets idle while a later session is connecting or connected.
C35_TimerOnlyLeavesError ==
  [][errTimers' < errTimers
     => \/ status = "error" /\ status' = "idle"
        \/ status # "error" /\ status' = status]_vars

\* A callback of session s is delivered: a message of its transport with a
\* fragment, a final marker or a tool call, or its onclose with the
\* onDisconnect that follows an `await cleanup()` that returns at once.
Delivered(s) ==
  \/ \E m \in RestartMessages : OnMessage(s, m)
  \/ OnClose(s)

\* C36: session isolation -- a callback of an ended session delivered after
\* a new session has started leaves the fragment buffers, the transcript
\* list, status, the mute flag and the connection handle as they are.
C36_SessionIsolation ==
  [][\A s, t \in Sessions :
       (s < t /\ sess[t].pc # "none" /\ Delivered(s))
       => UNCHANGED <<userBuf, jhumaBuf, transcript, status, isMuted,
                      connection>>]_vars

\* C37: for one session onDisconnect is invoked at most once, whatever
\* combination and order of onerror, onclose and disconnect() occurs.
C37_DisconnectAtMostOnce ==
  \A s \in Sessions : sess[s].disconnects <= 1

\* C38: an interrupted flag carried by a message is always honoured -- when
\* the message has been handled no source is left in the set and
\* nextStartTime is 0 -- also when the same message carries an audio chunk
\* that does not decode.
C38_InterruptedHonoured ==
  [][\A m \in PlayMessages :
       (m.interrupted /\ OnMessage(1, m))
       => /\ sess'[1].sources = {}
          /\ sess'[1].nextStartTime = 0]_vars

\* C39: the entries of the transcript list have pairwise distinct ids, the
\* two utterances finalized by one turnComplete and a MapIntent appended by
\* the same message included.
C39_DistinctIds ==
  \A i, j \in DOMAIN transcript :
    i # j => transcript[i].id # transcript[j].id

\* ------------------------------------------------------------------------
\* A build without process.env.API_KEY (SpecKey)
\* ------------------------------------------------------------------------
\* Start: the else branch of toggleSession, connectToJhumaLive which finds
\* no API key, calls onError and returns the control object whose methods
\* do nothing, and setConnection(conn).  The promise awaited is resolved
\* already: nothing comes between the call and setConnection.
ToggleStartNoKey(cap) ==
  /\ status \notin {"connected", "connecting"}
  /\ Unused(cap) # {}
  /\ LET s == CHOOSE x \in Unused(cap) : \A y \in Unused(cap) : x <= y
         w == World
         v == [w EXCEPT !.status = "connecting", !.isExpanded = TRUE,
                        !.transcript = <<>>, !.userBuf = "", !.jhumaBuf = "",
                        !.streamingUser = "", !.streamingJhuma = "",
                        !.isMuted = FALSE,
                        !.sess[s] = [NoSession EXCEPT !.pc = "nokey",
                                       !.capt = w.transcript]]
     IN Do([onError(v) EXCEPT !.connection = s])

NextKey ==
  \/ ToggleStartNoKey(MaxSessions)
  \/ ErrorTimerFires
  \/ ToggleCamera
  \/ ToggleMute
  \/ VideoTick
  \/ Collapse
  \/ \E c \in {NoConn} \cup Sessions :
       CamGranted(c) \/ CamDenied(c) \/ CamTimerFires(c)

SpecKey == Init /\ [][NextKey]_vars

\* C40: the component holds a connection handle only while status is
\* connecting or connected -- with status idle or error the handle is null,
\* also after a connect attempt that failed for want of the API key.
C40_HandleOnlyWhileLive ==
  status \in {"idle", "error"} => connection = NoConn

====
